---- MODULE Spec2Model ----
\* Frame-pointer stack walker of tracefp (src/src/lib.rs): register extraction,
\* the walk loop of trace_from_ucontext, load, and the pipe-based memory probe
\* access_check::can_access, as a state machine: one walk on one thread (Spec),
\* the test drivers of can_access and load, a kernel with unconstrained
\* results, a thread interrupted by signal handlers, and several threads.
EXTENDS Integers, Sequences, FiniteSets, TLC

\* ---------------------------------------------------------------- bounds
\* Size of the address space: u64 addresses are scaled to 0..AddrSpace-1.
AddrSpace == 64
\* Cap on the iterations of the walk loop explored (the code has none).
MaxFrames == 3
\* Cap on the number of system calls the kernel interrupts (EINTR) in a run.
MaxIntr == 1
\* Cap on the number of can_access calls of the probe test driver.
MaxProbeCalls == 3
\* Bytes the kernel buffers in the pipe before a non-blocking write would block.
PipeCapacity == 4
\* Cap on the number of system calls that return 0 bytes in a run.
MaxZero == 2
\* Cap on the can_access calls completed before the threads start no more.
MaxThreadCalls == 1
\* Cap on the signals delivered in a run.
MaxSignals == 1
\* Cap on the number of load calls of the load test driver.
MaxLoads == 2
\* Cap on the can_access calls a thread makes before the walk explored on it.
MaxCallsBeforeWalk == 1

\* ------------------------------------------------------ program constants
\* Offset of the return address in a frame record, `fp + 8`.
RetOffset == 8
\* size_of::<u64>(): bytes read by load::<u64>.
WordSize == 8
\* Length of the drain buffer, `[0u8; 8]`.
DrainLen == 8
\* Byte count of the probing write, `libc::write(pipes[1], address as _, 1)`.
ProbeLen == 1
EINTR == 4
EAGAIN == 11
EFAULT == 14
EBADF == 9

\* ------------------------------------------------------------ input sets
Platforms == {"x86_64-linux", "x86_64-macos", "aarch64-linux", "aarch64-macos"}
Profiles == {"dev", "release"}
\* Readable bytes of the process; address 0 and the top of the address space
\* are never mapped.
MemoryMaps == {16..47, 16..39}
\* Frame-pointer values: register contents and saved frame pointers.
FpValues == {0, 8, 16, 32, 39, 48, AddrSpace - 1}
\* Stored return addresses.
RetAddrs == {0, 9}
\* Program-counter register contents.
PcValues == {5}
\* Contents of RBX (x86_64 only).
RbxValues == {0, 16}
\* Threads of the process that call can_access.
Threads == {1, 2}
\* Addresses handed to can_access by the probe test driver.
ProbeAddrs == {0, 15, 16, 39, 47, AddrSpace - 1}

VARIABLES
    arch_os,          \* build target (cfg target_arch / target_os)
    feature,          \* cargo feature "memory-access-check"
    profile,          \* "dev": overflow and alignment checks; "release": none
    readable,         \* set of readable byte addresses
    mem,              \* words of memory read so far: address -> u64
    ucontext,         \* the context handed to trace_from_ucontext
    CAN_ACCESS_PIPE,  \* thread-local [init, fds]
    pipe_len,         \* bytes buffered in the kernel pipe
    pos,              \* position of the walker
    pc,
    fp,
    address,          \* argument of the load in progress
    ca,               \* the can_access call in progress [pos, address, ret]
    log,              \* events of the current call, in order
    outcome,          \* how the call ended
    intr,             \* system calls interrupted so far
    ncalls,           \* can_access calls completed by the test driver
    errno,            \* the thread's errno
    rv,               \* return value of the system call just made
    stack,            \* can_access calls suspended by a signal: [ca, rv]
    cur,              \* the thread that is running
    threads,          \* thread -> its can_access call, saved while not running
    tls,              \* thread-local slot -> CAN_ACCESS_PIPE of its thread
    kpipes            \* read descriptor -> bytes buffered, for saved pipes

vars == <<arch_os, feature, profile, readable, mem, ucontext, CAN_ACCESS_PIPE,
          pipe_len, pos, pc, fp, address, ca, log, outcome, intr, ncalls,
          errno, rv, stack, cur, threads, tls, kpipes>>

signal_vars == <<errno, rv, stack>>
thread_vars == <<cur, threads, tls, kpipes>>

config_vars == <<arch_os, feature, profile, readable>>
walk_vars == <<ucontext, pos, pc, fp, address, outcome>>
pipe_vars == <<CAN_ACCESS_PIPE, pipe_len, intr>>

\* --------------------------------------------------------------- helpers
Ev(op, arg, res) == [op |-> op, arg |-> arg, res |-> res]
B2N(b) == IF b THEN 1 ELSE 0

RECURSIVE CountOp(_, _)
CountOp(s, op) ==
    IF s = <<>> THEN 0
    ELSE (IF s[Len(s)].op = op THEN 1 ELSE 0) + CountOp(SubSeq(s, 1, Len(s) - 1), op)

IsLinux == arch_os \in {"x86_64-linux", "aarch64-linux"}
IsDarwin(platform) == platform \in {"x86_64-macos", "aarch64-macos"}
IsX86(platform) == platform \in {"x86_64-linux", "x86_64-macos"}

ProbeOnEveryTarget == feature

\* cfg(all(target_os = "linux", feature = "memory-access-check"))
ProbeEnabled == IsLinux /\ feature

\* u64 `a + b`: panics with overflow checks, wraps without.
checked_add(a, b) ==
    IF a + b >= AddrSpace
    THEN [panic |-> profile = "dev", val |-> (a + b) % AddrSpace]
    ELSE [panic |-> FALSE, val |-> a + b]

\* u64 `a - b` (`pc -= 1`): panics with overflow checks, wraps without.
checked_sub(a, b) ==
    IF a - b < 0
    THEN [panic |-> profile = "dev", val |-> (a - b + AddrSpace) % AddrSpace]
    ELSE [panic |-> FALSE, val |-> a - b]

\* ------------------------------------------------------ Registers
None == [some |-> FALSE, pc |-> 0, fp |-> 0]
Some(p, f) == [some |-> TRUE, pc |-> p, fp |-> f]

NoRegs == [pc_reg |-> 0, fp_reg |-> 0, rbx |-> 0]
NullContext == [null |-> TRUE, mnull |-> FALSE, regs |-> NoRegs]

\* Register files a context can hold: pc_reg is RIP / PC, fp_reg is the
\* frame-pointer register RBP / x29, rbx is RBX.
RegisterFiles(platform) ==
    {[pc_reg |-> p, fp_reg |-> f, rbx |-> b] :
        p \in PcValues, f \in FpValues,
        b \in IF IsX86(platform) THEN RbxValues ELSE {0}}

\* Contexts a caller can pass: null, (Darwin) a null uc_mcontext, or registers.
Contexts(platform) ==
    {NullContext}
    \cup (IF IsDarwin(platform)
          THEN {[null |-> FALSE, mnull |-> TRUE, regs |-> NoRegs]} ELSE {})
    \cup {[null |-> FALSE, mnull |-> FALSE, regs |-> r] : r \in RegisterFiles(platform)}

from_ucontext_unchecked(platform, uc) ==
    CASE platform = "x86_64-macos" -> Some(uc.regs.pc_reg, uc.regs.rbx)
      [] OTHER -> Some(uc.regs.pc_reg, uc.regs.fp_reg)

\* Registers::from_ucontext, one variant per platform.
from_ucontext(platform, uc) ==
    IF uc.null THEN None
    ELSE CASE platform = "x86_64-linux" ->
                Some(uc.regs.pc_reg, uc.regs.fp_reg)
           [] platform = "x86_64-macos" ->
                IF uc.mnull THEN None ELSE Some(uc.regs.pc_reg, uc.regs.rbx)
           [] platform = "aarch64-linux" ->
                Some(uc.regs.pc_reg, uc.regs.fp_reg)
           [] platform = "aarch64-macos" ->
                IF uc.mnull THEN None ELSE Some(uc.regs.pc_reg, uc.regs.fp_reg)

\* ------------------------------------------------------------------ Init
IdleCall == [pos |-> "idle", address |-> 0, ret |-> FALSE]
NoPipe == [init |-> FALSE, fds |-> <<-1, -1>>]

\* One thread runs, outside any signal handler; no thread has touched its
\* thread-local yet.
SingleThread ==
    /\ errno = 0
    /\ rv = 0
    /\ stack = <<>>
    /\ cur = 1
    /\ threads = [t \in Threads |-> IdleCall]
    /\ tls = [t \in Threads |-> NoPipe]
    /\ kpipes = <<>>

Init ==
    /\ arch_os \in Platforms
    /\ feature \in BOOLEAN
    /\ profile \in Profiles
    /\ readable \in MemoryMaps
    /\ mem = <<>>
    /\ ucontext = NullContext
    /\ CAN_ACCESS_PIPE = [init |-> FALSE, fds |-> <<-1, -1>>]
    /\ pipe_len = 0
    /\ pos = "idle"
    /\ pc = 0
    /\ fp = 0
    /\ address = 0
    /\ ca = IdleCall
    /\ log = <<>>
    /\ outcome = "running"
    /\ intr = 0
    /\ ncalls = 0
    /\ SingleThread

\* ------------------------------------------------- kernel: the probe pipe
Min(a, b) == IF a < b THEN a ELSE b
Failed(e) == [size |-> -1, errno |-> e]
Done(n) == [size |-> n, errno |-> 0]

\* Results the kernel can give for an interruptible system call.
Interrupted == IF intr < MaxIntr THEN {Failed(EINTR)} ELSE {}

\* libc::read(pipes[0], buffer, 8) on the non-blocking pipe holding len bytes.
sys_read(len) ==
    (IF len = 0 THEN {Failed(EAGAIN)} ELSE {Done(Min(len, DrainLen))})
    \cup Interrupted

\* libc::write(pipes[1], a, 1) on the non-blocking pipe holding len bytes:
\* the kernel copies ProbeLen bytes from user address a.
sys_write(len, a) ==
    (IF len + ProbeLen > PipeCapacity THEN {Failed(EAGAIN)}
     ELSE IF \E i \in 0..(ProbeLen - 1) : (a + i) \notin readable
          THEN {Failed(EFAULT)}
          ELSE {Done(ProbeLen)})
    \cup Interrupted

\* --------------------------------------------- access_check::can_access
drain_arm_until_empty(r) ==
    IF r.size = -1
    THEN CASE r.errno = EINTR -> "continue"
           [] r.errno = EAGAIN -> "true"
           [] OTHER -> "false"
    ELSE "continue"

drain_arm_no_retry(r) ==
    IF r.size = -1
    THEN CASE r.errno \in {EINTR, EAGAIN} -> "true"
           [] OTHER -> "false"
    ELSE IF r.size > 0 THEN "true" ELSE "continue"

\* The arms of the drain loop: "continue", or break with true / false.
drain_arm(r) ==
    IF r.size = -1
    THEN CASE r.errno = EINTR -> "continue"
           [] r.errno = EAGAIN -> "true"
           [] OTHER -> "false"
    ELSE IF r.size > 0 THEN "true" ELSE "continue"

write_arm_efault_ok(r) ==
    IF r.size = -1
    THEN CASE r.errno = EINTR -> "continue"
           [] OTHER -> "true"
    ELSE IF r.size > 0 THEN "true" ELSE "continue"

\* The arms of the write loop.
write_arm(r) ==
    IF r.size = -1
    THEN CASE r.errno = EINTR -> "continue"
           [] r.errno = EAGAIN -> "true"
           [] OTHER -> "false"
    ELSE IF r.size > 0 THEN "true" ELSE "continue"

\* The lowest descriptor numbers not in use: 0..2 are the standard streams and
\* every pipe created before holds two.
NextFd == 3 + 2 * Cardinality(DOMAIN kpipes)

pipe_init_retry(res) ==
    [init |-> res = 0, fds |-> IF res = 0 THEN <<NextFd, NextFd + 1>> ELSE <<-1, -1>>]

\* The thread-local initialiser: pipe2 succeeded (res = 0) or not.
pipe_init(res) ==
    [init |-> TRUE, fds |-> IF res = 0 THEN <<NextFd, NextFd + 1>> ELSE <<-1, -1>>]

Return(v) == [pos |-> "ret", address |-> ca.address, ret |-> v]
Verdict(v) == Ev("verdict", ca.address, B2N(v))
At(p) == [pos |-> p, address |-> ca.address, ret |-> FALSE]

\* CAN_ACCESS_PIPE.with: lazy creation of the pipe on the thread's first call,
\* then the test for the [-1, -1] sentinel.
CanAccessEnter ==
    /\ ca.pos = "enter"
    /\ \E res \in IF CAN_ACCESS_PIPE.init THEN {0} ELSE {0, -1} :
         LET pipes == IF CAN_ACCESS_PIPE.init THEN CAN_ACCESS_PIPE
                      ELSE pipe_init(res)
         IN /\ CAN_ACCESS_PIPE' = pipes
            /\ log' = log
                      \o (IF CAN_ACCESS_PIPE.init THEN <<>> ELSE <<Ev("pipe2", 0, res)>>)
                      \o (IF pipes.fds[1] = -1 \/ pipes.fds[2] = -1
                          THEN <<Verdict(FALSE)>> ELSE <<>>)
            /\ ca' = IF pipes.fds[1] = -1 \/ pipes.fds[2] = -1
                     THEN Return(FALSE) ELSE At("drain")
    /\ UNCHANGED <<config_vars, signal_vars, thread_vars,
                 walk_vars, mem, pipe_len, intr, ncalls>>

\* One pass of the loop that clears the data already in the pipe.
DrainPass(r) ==
    /\ log' = log \o <<Ev("read", 0, IF r.size = -1 THEN -r.errno ELSE r.size)>>
               \o (IF drain_arm(r) = "false" THEN <<Verdict(FALSE)>> ELSE <<>>)
    /\ pipe_len' = IF r.size > 0 THEN pipe_len - r.size ELSE pipe_len
    /\ intr' = IF r.errno = EINTR THEN intr + 1 ELSE intr
    /\ ca' = CASE drain_arm(r) = "continue" -> ca
               [] drain_arm(r) = "true" -> At("write")
               [] OTHER -> Return(FALSE)

DrainRead ==
    /\ ca.pos = "drain"
    /\ \E r \in sys_read(pipe_len) : DrainPass(r)
    /\ UNCHANGED <<config_vars, signal_vars, thread_vars,
                 walk_vars, mem, CAN_ACCESS_PIPE, ncalls>>

\* One pass of the loop that lets the kernel read the address.
WritePass(r) ==
    /\ log' = log
               \o <<Ev("write", ca.address, IF r.size = -1 THEN -r.errno ELSE r.size)>>
               \o (CASE write_arm(r) = "continue" -> <<>>
                     [] write_arm(r) = "true" -> <<Verdict(TRUE)>>
                     [] OTHER -> <<Verdict(FALSE)>>)
    /\ pipe_len' = IF r.size > 0 THEN pipe_len + r.size ELSE pipe_len
    /\ intr' = IF r.errno = EINTR THEN intr + 1 ELSE intr
    /\ ca' = CASE write_arm(r) = "continue" -> ca
               [] write_arm(r) = "true" -> Return(TRUE)
               [] OTHER -> Return(FALSE)

ProbeWrite ==
    /\ ca.pos = "write"
    /\ \E r \in sys_write(pipe_len, ca.address) : WritePass(r)
    /\ UNCHANGED <<config_vars, signal_vars, thread_vars,
                 walk_vars, mem, CAN_ACCESS_PIPE, ncalls>>

\* ------------------------------------------------------------------ load
\* align_of::<u64>() is the word size: a dereference of any other address is
\* undefined behaviour.
Misaligned(a) == a % WordSize # 0

Store(a, v) == IF a \in DOMAIN mem THEN mem ELSE (a :> v) @@ mem

\* `*(address as *const u64)`: the value stored at a (drawn from fresh on the
\* first read of a), a fault when one of its bytes is not readable, or, in a
\* build with debug assertions, possibly the misaligned-dereference panic.
Deref(a, fresh) ==
    LET raw == IF \A i \in 0..(WordSize - 1) : (a + i) \in readable
               THEN {[k |-> "Some", v |-> w] :
                        w \in IF a \in DOMAIN mem THEN {mem[a]} ELSE fresh}
               ELSE {[k |-> "fault", v |-> 0]}
    IN IF Misaligned(a) /\ profile = "dev"
       THEN raw \cup {[k |-> "panic", v |-> 0]}
       ELSE raw

load_unguarded(a, fresh) == Deref(a, fresh)

\* load::<u64>(a): with the probe compiled in, None unless can_access(a).
load(a, fresh) ==
    IF ProbeEnabled /\ ~ca.ret
    THEN {[k |-> "None", v |-> 0]}
    ELSE Deref(a, fresh)

\* ------------------------------------------------------------ the walker
Finish(out, evs) ==
    /\ pos' = "done"
    /\ outcome' = out
    /\ log' = log \o evs

\* `let Registers { mut pc, mut fp } = match Registers::from_ucontext(..)`
Extract(uc) ==
    LET r == from_ucontext(arch_os, uc)
    IN /\ ucontext' = uc
       /\ IF r.some
          THEN /\ pc' = r.pc
               /\ fp' = r.fp
               /\ pos' = "f0"
               /\ outcome' = outcome
          ELSE /\ pos' = "done"
               /\ outcome' = "no_context"
               /\ UNCHANGED <<pc, fp>>

trace_from_ucontext ==
    /\ pos = "idle"
    /\ \E uc \in Contexts(arch_os) : Extract(uc)
    /\ log' = Append(log, Ev("from_ucontext", 0, 0))
    /\ UNCHANGED <<config_vars, signal_vars, thread_vars,
                 pipe_vars, mem, address, ca, ncalls>>

\* trace: getcontext into a zeroed context (on macOS linked to a register
\* block of its own), then trace_from_ucontext unless getcontext failed.
trace ==
    /\ pos = "idle"
    /\ \E rc \in {0, -1}, r \in RegisterFiles(arch_os) :
         IF rc # 0
         THEN /\ Finish("no_context", <<Ev("getcontext", 0, rc)>>)
              /\ ucontext' = [null |-> FALSE, mnull |-> FALSE, regs |-> NoRegs]
              /\ UNCHANGED <<pc, fp>>
         ELSE /\ Extract([null |-> FALSE, mnull |-> FALSE, regs |-> r])
              /\ log' = log \o <<Ev("getcontext", 0, rc), Ev("from_ucontext", 0, 0)>>
    /\ UNCHANGED <<config_vars, signal_vars, thread_vars,
                 pipe_vars, mem, address, ca, ncalls>>

keep_going_always(ret) == TRUE

\* `if !f(pc) { return; }`
keep_going(ret) == ret

\* The callback is invoked with pc and answers ret.
Callback(here, next) ==
    /\ pos = here
    /\ \E ret \in BOOLEAN :
         IF keep_going(ret)
         THEN /\ pos' = next
              /\ outcome' = outcome
              /\ log' = Append(log, Ev("f", pc, B2N(ret)))
         ELSE Finish("stopped", <<Ev("f", pc, B2N(ret))>>)

CallbackFirst ==
    /\ Callback("f0", "while")
    /\ UNCHANGED <<config_vars, signal_vars, thread_vars,
                 pipe_vars, mem, ucontext, pc, fp, address, ca, ncalls>>

loop_continues_always(f) == TRUE

\* `while fp != 0`
loop_continues(f) == f # 0

\* `while fp != 0 {` and the address `fp + 8` of the first load.
WhileTest ==
    /\ pos = "while"
    /\ IF ~loop_continues(fp)
       THEN /\ Finish("exhausted", <<>>)
            /\ UNCHANGED address
       ELSE /\ CountOp(log, "f") <= MaxFrames
            /\ LET s == checked_add(fp, RetOffset)
               IN IF s.panic
                  THEN /\ Finish("overflow", <<Ev("panic", fp, 0)>>)
                       /\ UNCHANGED address
                  ELSE /\ address' = s.val
                       /\ pos' = "load_ra"
                       /\ UNCHANGED <<outcome, log>>
    /\ UNCHANGED <<config_vars, signal_vars, thread_vars,
                 pipe_vars, mem, ucontext, pc, fp, ca, ncalls>>

\* load calls can_access(address) first when the probe is compiled in.
LoadCheck ==
    /\ pos \in {"load_ra", "load_fp", "load_t"}
    /\ ProbeEnabled
    /\ ca.pos = "idle"
    /\ ca' = [pos |-> "enter", address |-> address, ret |-> FALSE]
    /\ log' = Append(log, Ev("can_access", address, 0))
    /\ UNCHANGED <<config_vars, signal_vars, thread_vars,
                 walk_vars, pipe_vars, mem, ncalls>>

\* `pc = match load::<u64>(fp + 8) {..}; pc -= 1;`
LoadRa ==
    /\ pos = "load_ra"
    /\ ProbeEnabled => ca.pos = "ret"
    /\ ca' = IdleCall
    /\ \E r \in load(address, RetAddrs) :
         CASE r.k = "None" ->
                /\ Finish("unreadable", <<Ev("none", address, 0)>>)
                /\ UNCHANGED <<pc, mem>>
           [] r.k = "fault" ->
                /\ Finish("fault", <<Ev("fault", address, 0)>>)
                /\ UNCHANGED <<pc, mem>>
           [] r.k = "panic" ->
                /\ Finish("misaligned", <<Ev("panic", address, 0)>>)
                /\ UNCHANGED <<pc, mem>>
           [] OTHER ->
                LET d == checked_sub(r.v, 1)
                IN /\ mem' = Store(address, r.v)
                   /\ IF d.panic
                      THEN /\ Finish("overflow", <<Ev("load", address, r.v),
                                                Ev("panic", r.v, 0)>>)
                           /\ UNCHANGED pc
                      ELSE /\ pc' = d.val
                           /\ pos' = "f"
                           /\ log' = Append(log, Ev("load", address, r.v))
                           /\ UNCHANGED outcome
    /\ UNCHANGED <<config_vars, signal_vars, thread_vars,
                 pipe_vars, ucontext, fp, address, ncalls>>

\* `if !f(pc) { return; }` inside the loop, then the address of the second load.
CallbackNext ==
    /\ Callback("f", "load_fp")
    /\ address' = IF pos' = "load_fp" THEN fp ELSE address
    /\ UNCHANGED <<config_vars, signal_vars, thread_vars,
                 pipe_vars, mem, ucontext, pc, fp, ca, ncalls>>

\* `fp = match load::<u64>(fp) {..};`
LoadFp ==
    /\ pos = "load_fp"
    /\ ProbeEnabled => ca.pos = "ret"
    /\ ca' = IdleCall
    /\ \E r \in load(address, FpValues) :
         CASE r.k = "None" ->
                /\ Finish("unreadable", <<Ev("none", address, 0)>>)
                /\ UNCHANGED <<fp, mem>>
           [] r.k = "fault" ->
                /\ Finish("fault", <<Ev("fault", address, 0)>>)
                /\ UNCHANGED <<fp, mem>>
           [] r.k = "panic" ->
                /\ Finish("misaligned", <<Ev("panic", address, 0)>>)
                /\ UNCHANGED <<fp, mem>>
           [] OTHER ->
                /\ mem' = Store(address, r.v)
                /\ fp' = r.v
                /\ pos' = "while"
                /\ log' = Append(log, Ev("load", address, r.v))
                /\ UNCHANGED outcome
    /\ UNCHANGED <<config_vars, signal_vars, thread_vars,
                 pipe_vars, ucontext, pc, address, ncalls>>

Next ==
    \/ trace
    \/ trace_from_ucontext
    \/ CallbackFirst
    \/ WhileTest
    \/ LoadCheck
    \/ CanAccessEnter
    \/ DrainRead
    \/ ProbeWrite
    \/ LoadRa
    \/ CallbackNext
    \/ LoadFp

Spec == Init /\ [][Next]_vars

\* ------------------------------------------- the probe's test driver
\* access_check is compiled on Linux with the feature on; its test calls
\* can_access directly, several times on one thread.
ProbeInit ==
    /\ arch_os \in {"x86_64-linux", "aarch64-linux"}
    /\ feature = TRUE
    /\ profile \in Profiles
    /\ readable \in MemoryMaps
    /\ mem = <<>>
    /\ ucontext = NullContext
    /\ CAN_ACCESS_PIPE = [init |-> FALSE, fds |-> <<-1, -1>>]
    /\ pipe_len = 0
    /\ pos = "test"
    /\ pc = 0
    /\ fp = 0
    /\ address = 0
    /\ ca = IdleCall
    /\ log = <<>>
    /\ outcome = "running"
    /\ intr = 0
    /\ ncalls = 0
    /\ SingleThread

\* `can_access(a)` called from the test.
TestCall ==
    /\ pos = "test"
    /\ ca.pos = "idle"
    /\ ncalls < MaxProbeCalls
    /\ \E a \in ProbeAddrs :
         /\ ca' = [pos |-> "enter", address |-> a, ret |-> FALSE]
         /\ log' = Append(log, Ev("can_access", a, 0))
    /\ UNCHANGED <<config_vars, signal_vars, thread_vars,
                 walk_vars, pipe_vars, mem, ncalls>>

\* The call returns its verdict to the test.
TestReturn ==
    /\ pos = "test"
    /\ ca.pos = "ret"
    /\ ca' = IdleCall
    /\ ncalls' = ncalls + 1
    /\ UNCHANGED <<config_vars, signal_vars, thread_vars, walk_vars, pipe_vars, mem, log>>

ProbeNext ==
    \/ TestCall
    \/ CanAccessEnter
    \/ DrainRead
    \/ ProbeWrite
    \/ TestReturn

ProbeSpec == ProbeInit /\ [][ProbeNext]_vars

\* ------------------------------------------------ load's test driver
\* size_of::<T>() of the types load is instantiated with: i8 (test_load) and
\* u64 (test_load and the walker); align_of::<T>() is the same number.
Widths == {1, WordSize}
\* Addresses handed to load by the test driver.
LoadAddrs == {0, 16, 39, 47}

\* The value of width w at a when the word at a is v (little-endian).
Narrow(v, w) == IF w = WordSize THEN v ELSE v % 256

\* `*(address as *const T)` for a T of w bytes.
Deref_T(a, w, fresh) ==
    LET raw == IF \A i \in 0..(w - 1) : (a + i) \in readable
               THEN {[k |-> "Some", v |-> x] :
                        x \in IF a \in DOMAIN mem THEN {mem[a]} ELSE fresh}
               ELSE {[k |-> "fault", v |-> 0]}
    IN IF a % w # 0 /\ profile = "dev"
       THEN raw \cup {[k |-> "panic", v |-> 0]}
       ELSE raw

\* load::<T>(a) for a T of w bytes, either variant.
load_T(a, w, fresh) ==
    IF ProbeEnabled /\ ~ca.ret
    THEN {[k |-> "None", v |-> 0]}
    ELSE Deref_T(a, w, fresh)

LoadInit ==
    /\ arch_os \in Platforms
    /\ feature \in BOOLEAN
    /\ profile \in Profiles
    /\ readable \in MemoryMaps
    /\ mem = <<>>
    /\ ucontext = NullContext
    /\ CAN_ACCESS_PIPE = [init |-> FALSE, fds |-> <<-1, -1>>]
    /\ pipe_len = 0
    /\ pos = "test_load"
    /\ pc = 0
    /\ fp = 0
    /\ address = 0
    /\ ca = IdleCall
    /\ log = <<>>
    /\ outcome = "running"
    /\ intr = 0
    /\ ncalls = 0
    /\ SingleThread

\* `load::<T>(loc)` called from the test.
TestLoadCall ==
    /\ pos = "test_load"
    /\ ncalls < MaxLoads
    /\ \E a \in LoadAddrs : address' = a
    /\ pos' = "load_t"
    /\ UNCHANGED <<config_vars, signal_vars, thread_vars,
                 pipe_vars, mem, ucontext, pc, fp, outcome, ca, log, ncalls>>

\* The body of load after the check (if any): the dereference or None. The
\* events are the width of T, then what the call did; a fault or a panic ends
\* the test process.
TestLoad ==
    /\ pos = "load_t"
    /\ ProbeEnabled => ca.pos = "ret"
    /\ ca' = IdleCall
    /\ ncalls' = ncalls + 1
    /\ \E w \in Widths : \E r \in load_T(address, w, RetAddrs) :
         CASE r.k = "None" ->
                /\ log' = log \o <<Ev("width", address, w), Ev("none", address, 0)>>
                /\ pos' = "test_load"
                /\ UNCHANGED <<mem, outcome>>
           [] r.k = "fault" ->
                /\ Finish("fault", <<Ev("width", address, w), Ev("fault", address, 0)>>)
                /\ UNCHANGED mem
           [] r.k = "panic" ->
                /\ Finish("misaligned", <<Ev("width", address, w), Ev("panic", address, 0)>>)
                /\ UNCHANGED mem
           [] OTHER ->
                /\ mem' = Store(address, r.v)
                /\ log' = log \o <<Ev("width", address, w),
                                    Ev("load", address, Narrow(r.v, w))>>
                /\ pos' = "test_load"
                /\ UNCHANGED outcome
    /\ UNCHANGED <<config_vars, signal_vars, thread_vars,
                 pipe_vars, ucontext, pc, fp, address>>

LoadNext ==
    \/ TestLoadCall
    \/ LoadCheck
    \/ CanAccessEnter
    \/ DrainRead
    \/ ProbeWrite
    \/ TestLoad

LoadSpec == LoadInit /\ [][LoadNext]_vars

\* ------------------------------------------ calls and a walk on one thread
\* trace_from_ucontext called on the thread of the test driver, after any
\* few of its can_access calls. The walks explored here are those of a
\* thread without a pipe: none created yet, or the cached sentinel.
TestWalk ==
    /\ pos = "test"
    /\ ca.pos = "idle"
    /\ ncalls <= MaxCallsBeforeWalk
    /\ ~CAN_ACCESS_PIPE.init \/ CAN_ACCESS_PIPE.fds = <<-1, -1>>
    /\ \E uc \in Contexts(arch_os) : Extract(uc)
    /\ log' = Append(log, Ev("from_ucontext", 0, 0))
    /\ UNCHANGED <<config_vars, signal_vars, thread_vars,
                 pipe_vars, mem, address, ca, ncalls>>

ThreadNext ==
    \/ TestCall
    \/ CanAccessEnter
    \/ DrainRead
    \/ ProbeWrite
    \/ TestReturn
    \/ TestWalk
    \/ CallbackFirst
    \/ WhileTest
    \/ LoadCheck
    \/ LoadRa
    \/ CallbackNext
    \/ LoadFp

ThreadSpec == ProbeInit /\ [][ThreadNext]_vars

\* ---------------------------------- can_access over an unconstrained kernel
\* The results the read and write interface allows beyond those of a healthy
\* pipe: 0 bytes, "would block", and a failure of another class.
ZeroResults == Cardinality({i \in DOMAIN log : log[i].op \in {"read", "write"}
                                               /\ log[i].res = 0})
AnyResult ==
    {Failed(EAGAIN), Failed(EBADF)} \cup (IF ZeroResults < MaxZero THEN {Done(0)} ELSE {})

\* A thread that has made all but one of its calls: its pipe exists and holds
\* what the last call left.
AnyInit ==
    /\ SingleThread
    /\ arch_os \in {"x86_64-linux", "aarch64-linux"}
    /\ feature = TRUE
    /\ profile \in Profiles
    /\ readable \in MemoryMaps
    /\ mem = <<>>
    /\ ucontext = NullContext
    /\ CAN_ACCESS_PIPE = pipe_init(0)
    /\ pipe_len \in 0..ProbeLen
    /\ pos = "test"
    /\ pc = 0
    /\ fp = 0
    /\ address = 0
    /\ ca = IdleCall
    /\ log = <<>>
    /\ outcome = "running"
    /\ intr = 0
    /\ ncalls = MaxProbeCalls - 1

DrainReadAny ==
    /\ ca.pos = "drain"
    /\ \E r \in sys_read(pipe_len) \cup AnyResult : DrainPass(r)
    /\ UNCHANGED <<config_vars, signal_vars, thread_vars,
                 walk_vars, mem, CAN_ACCESS_PIPE, ncalls>>

ProbeWriteAny ==
    /\ ca.pos = "write"
    /\ \E r \in sys_write(pipe_len, ca.address) \cup AnyResult : WritePass(r)
    /\ UNCHANGED <<config_vars, signal_vars, thread_vars,
                 walk_vars, mem, CAN_ACCESS_PIPE, ncalls>>

AnyNext ==
    \/ TestCall
    \/ CanAccessEnter
    \/ DrainReadAny
    \/ ProbeWriteAny
    \/ TestReturn

AnySpec == AnyInit /\ [][AnyNext]_vars

\* ------------------------------------------------------ several threads
process_global(t) == 1

\* thread_local!: the slot of CAN_ACCESS_PIPE that thread t uses.
thread_local(t) == t

\* pipe2 succeeded when p was initialised.
Created(p) == p.init /\ p.fds[1] # -1

\* The scheduler takes the running thread off the processor and resumes
\* thread t: the call in progress and the thread-local slot of t take the
\* place of the running thread's, and pipe_len is the buffer of the pipe that
\* t's descriptors name.
ThreadSwitch ==
    /\ pos = "test"
    /\ \E t \in Threads \ {cur} :
         LET slots == [tls EXCEPT ![thread_local(cur)] = CAN_ACCESS_PIPE]
             bufs == IF Created(CAN_ACCESS_PIPE)
                     THEN (CAN_ACCESS_PIPE.fds[1] :> pipe_len) @@ kpipes
                     ELSE kpipes
             next == slots[thread_local(t)]
         IN /\ cur' = t
            /\ threads' = [threads EXCEPT ![cur] = ca]
            /\ ca' = threads[t]
            /\ tls' = slots
            /\ kpipes' = bufs
            /\ CAN_ACCESS_PIPE' = next
            /\ pipe_len' = IF Created(next) THEN bufs[next.fds[1]] ELSE 0
    /\ UNCHANGED <<config_vars, signal_vars, walk_vars, mem, log, intr, ncalls>>

\* Addresses the threads hand to can_access: one readable, one not.
ThreadAddrs == {16, AddrSpace - 1}

\* A process of several threads, none of which has called can_access yet;
\* no system call is interrupted in these runs.
ConcurrentInit ==
    /\ arch_os = "x86_64-linux"
    /\ feature = TRUE
    /\ profile = "release"
    /\ readable \in MemoryMaps
    /\ mem = <<>>
    /\ ucontext = NullContext
    /\ CAN_ACCESS_PIPE = NoPipe
    /\ pipe_len = 0
    /\ pos = "test"
    /\ pc = 0
    /\ fp = 0
    /\ address = 0
    /\ ca = IdleCall
    /\ log = <<>>
    /\ outcome = "running"
    /\ intr = MaxIntr
    /\ ncalls = 0
    /\ SingleThread

\* `can_access(a)` called by the running thread.
ThreadCall ==
    /\ pos = "test"
    /\ ca.pos = "idle"
    /\ ncalls < MaxThreadCalls
    /\ \E a \in ThreadAddrs :
         /\ ca' = [pos |-> "enter", address |-> a, ret |-> FALSE]
         /\ log' = Append(log, Ev("can_access", a, 0))
    /\ UNCHANGED <<config_vars, signal_vars, thread_vars, walk_vars, pipe_vars, mem, ncalls>>

ConcurrentNext ==
    \/ ThreadCall
    \/ CanAccessEnter
    \/ DrainRead
    \/ ProbeWrite
    \/ TestReturn
    \/ ThreadSwitch

ConcurrentSpec == ConcurrentInit /\ [][ConcurrentNext]_vars

\* ------------------------------------------- signals on one thread
\* can_access at the grain at which a signal can interrupt it: a system call
\* leaves its result in a register (rv) and, on failure, its error number in
\* the thread's errno; the match on the result reads them afterwards. A signal
\* handler runs on the stack of the thread it interrupts: the kernel saves and
\* restores the registers of the interrupted code, while errno and the pipe
\* are those of the thread, for handler and interrupted code alike.
SignalInit ==
    /\ arch_os = "x86_64-linux"
    /\ feature = TRUE
    /\ profile = "release"
    /\ readable \in MemoryMaps
    /\ mem = <<>>
    /\ ucontext = NullContext
    /\ CAN_ACCESS_PIPE = NoPipe
    /\ pipe_len = 0
    /\ pos = "test"
    /\ pc = 0
    /\ fp = 0
    /\ address = 0
    /\ ca = IdleCall
    /\ log = <<>>
    /\ outcome = "running"
    /\ intr = 0
    /\ ncalls = 0
    /\ SingleThread

\* `libc::read(pipes[0], buffer, 8)`
SysRead ==
    /\ ca.pos = "drain"
    /\ \E r \in sys_read(pipe_len) :
         /\ rv' = r.size
         /\ errno' = IF r.size = -1 THEN r.errno ELSE errno
         /\ pipe_len' = IF r.size > 0 THEN pipe_len - r.size ELSE pipe_len
         /\ intr' = IF r.errno = EINTR THEN intr + 1 ELSE intr
         /\ log' = Append(log, Ev("read", 0, IF r.size = -1 THEN -r.errno ELSE r.size))
    /\ ca' = At("drain_ret")
    /\ UNCHANGED <<config_vars, thread_vars, walk_vars, mem, stack, CAN_ACCESS_PIPE, ncalls>>

\* `if size == -1 { match errno {..} } else if size > 0 {..}` of the drain loop
DrainMatch ==
    /\ ca.pos = "drain_ret"
    /\ LET arm == drain_arm([size |-> rv, errno |-> errno])
       IN /\ ca' = CASE arm = "continue" -> At("drain")
                      [] arm = "true" -> At("write")
                      [] OTHER -> Return(FALSE)
          /\ log' = IF arm = "false" THEN Append(log, Verdict(FALSE)) ELSE log
    /\ UNCHANGED <<config_vars, signal_vars, thread_vars, walk_vars, pipe_vars, mem, ncalls>>

\* `libc::write(pipes[1], address, 1)`
SysWrite ==
    /\ ca.pos = "write"
    /\ \E r \in sys_write(pipe_len, ca.address) :
         /\ rv' = r.size
         /\ errno' = IF r.size = -1 THEN r.errno ELSE errno
         /\ pipe_len' = IF r.size > 0 THEN pipe_len + r.size ELSE pipe_len
         /\ intr' = IF r.errno = EINTR THEN intr + 1 ELSE intr
         /\ log' = Append(log, Ev("write", ca.address,
                                  IF r.size = -1 THEN -r.errno ELSE r.size))
    /\ ca' = At("write_ret")
    /\ UNCHANGED <<config_vars, thread_vars, walk_vars, mem, stack, CAN_ACCESS_PIPE, ncalls>>

\* `if size == -1 { match errno {..} } else if size > 0 {..}` of the write loop
WriteMatch ==
    /\ ca.pos = "write_ret"
    /\ LET arm == write_arm([size |-> rv, errno |-> errno])
       IN /\ ca' = CASE arm = "continue" -> At("write")
                      [] arm = "true" -> Return(TRUE)
                      [] OTHER -> Return(FALSE)
          /\ log' = CASE arm = "continue" -> log
                       [] arm = "true" -> Append(log, Verdict(TRUE))
                       [] OTHER -> Append(log, Verdict(FALSE))
    /\ UNCHANGED <<config_vars, signal_vars, thread_vars, walk_vars, pipe_vars, mem, ncalls>>

Signals == CountOp(log, "signal")

\* A signal is delivered while a can_access call is in progress: its handler
\* starts on top of the interrupted call.
SignalDelivered ==
    /\ pos = "test"
    /\ ca.pos # "idle"
    /\ Signals < MaxSignals
    /\ stack' = Append(stack, [ca |-> ca, rv |-> rv])
    /\ ca' = IdleCall
    /\ log' = Append(log, Ev("signal", Len(stack) + 1, 0))
    /\ UNCHANGED <<config_vars, thread_vars, walk_vars, pipe_vars, mem, errno, rv, ncalls>>

\* The handler returns after at least one complete can_access call: the
\* interrupted call resumes with its registers; nothing in the handler's path
\* (trace_from_ucontext, load, can_access) puts errno back.
SignalReturn ==
    /\ stack # <<>>
    /\ ca.pos = "idle"
    /\ log[Len(log)].op # "signal"
    /\ ca' = stack[Len(stack)].ca
    /\ rv' = stack[Len(stack)].rv
    /\ stack' = SubSeq(stack, 1, Len(stack) - 1)
    /\ log' = Append(log, Ev("sigreturn", Len(stack), 0))
    /\ UNCHANGED <<config_vars, thread_vars, walk_vars, pipe_vars, mem, errno, ncalls>>

SignalNext ==
    \/ ThreadCall
    \/ CanAccessEnter
    \/ SysRead
    \/ DrainMatch
    \/ SysWrite
    \/ WriteMatch
    \/ TestReturn
    \/ SignalDelivered
    \/ SignalReturn

SignalSpec == SignalInit /\ [][SignalNext]_vars

\* ======================================================= properties
\* What the log says, and what the walk should produce, computed from the
\* context and memory alone.
IsF(e) == e.op = "f"
FEvents == SelectSeq(log, IsF)
Emitted == [i \in 1..Len(FEvents) |-> FEvents[i].arg]
AllTrue == \A i \in DOMAIN log : log[i].op = "f" => log[i].res = 1
Syscalls == CountOp(log, "read") + CountOp(log, "write")
NoMemoryAccess ==
    \A i \in DOMAIN log :
        log[i].op \notin {"load", "fault", "none", "can_access", "pipe2", "read", "write"}

PipeCreated == \A i \in DOMAIN log : log[i].op = "pipe2" => log[i].res = 0
Walking == pos \notin {"idle", "test"}
ViaUcontext == log # <<>> /\ log[1].op = "from_ucontext"
GetcontextFailed == log # <<>> /\ log[1].op = "getcontext" /\ log[1].res # 0

\* The pair the walk starts from.
Start == from_ucontext(arch_os, ucontext)

Wrap(x) == (x + AddrSpace) % AddrSpace
FrameReadable(f) == \A i \in 0..(RetOffset + WordSize - 1) : (f + i) \in readable

\* Number of frame records on the chain from f to the terminating 0.
RECURSIVE ChainLen(_, _)
ChainLen(f, fuel) ==
    IF f = 0 \/ fuel = 0 THEN 0 ELSE 1 + ChainLen(mem[f], fuel - 1)

\* The adjusted return addresses of the first n frames of the chain from f.
RECURSIVE Expected(_, _)
Expected(f, n) ==
    IF n = 0 THEN <<>>
    ELSE <<Wrap(mem[Wrap(f + RetOffset)] - 1)>>
         \o (IF n = 1 THEN <<>> ELSE Expected(mem[f], n - 1))

\* The memory read so far is part of a chain of readable frame records from f
\* that ends in a saved frame pointer of 0 (words not read yet are free).
RECURSIVE Completable(_, _)
Completable(f, fuel) ==
    \/ f = 0
    \/ /\ fuel > 0
       /\ FrameReadable(f)
       /\ (f \in DOMAIN mem => Completable(mem[f], fuel - 1))

\* C1: on a chain of N readable frame records ending in a saved frame pointer
\* of 0, with a callback that always returns true (and a probe, when compiled
\* in, whose pipe was created), trace_from_ucontext ends
\* having invoked the callback N+1 times: with the extracted pc, then with
\* (word at fp_i + 8) - 1 for each frame, innermost first.
C1_VisitsEveryFrame ==
    (pos = "done" /\ ViaUcontext /\ Start.some /\ AllTrue /\ PipeCreated
        /\ Completable(Start.fp, MaxFrames + 1))
    => /\ outcome = "exhausted"
       /\ Emitted = <<Start.pc>> \o Expected(Start.fp, ChainLen(Start.fp, MaxFrames + 1))

\* C2: a callback invocation that returns false is the last event of the
\* call: no later callback, load or probe call; when it is the first
\* invocation, no memory was read and no probe ran at all.
C2_StopsAtFalse ==
    \A i \in DOMAIN log :
        (log[i].op = "f" /\ log[i].res = 0)
        => /\ i = Len(log)
           /\ pos = "done"
           /\ outcome = "stopped"
           /\ (CountOp(log, "f") = 1 => NoMemoryAccess)

C2_Witness ==
    /\ outcome = "stopped"
    /\ ProbeEnabled
    /\ CountOp(log, "f") = 2
    /\ CountOp(log, "load") = 1

\* C3: with the probe enabled the walk never faults: every byte of every
\* 8-byte word it loads is readable.
C3_NoFault ==
    ProbeEnabled
    => /\ outcome # "fault"
       /\ \A i \in DOMAIN log :
            log[i].op \in {"load", "fault"}
            => \A b \in 0..(WordSize - 1) : (log[i].arg + b) \in readable

\* C4: with a null context (on Darwin, a null register block), or when
\* getcontext fails, the call returns with no callback invocation and no
\* memory read.
C4_NoContextNoCallback ==
    (Walking /\ (ucontext.null \/ (IsDarwin(arch_os) /\ ucontext.mnull) \/ GetcontextFailed))
    => /\ pos = "done"
       /\ outcome = "no_context"
       /\ CountOp(log, "f") = 0
       /\ NoMemoryAccess

C4_Witness ==
    /\ pos = "done"
    /\ ViaUcontext
    /\ ucontext.null

\* C5: on a thread whose pipe was created, every can_access call, whatever
\* calls came before it, returns true exactly when the byte at its address is
\* readable; can_access(0) and can_access(max address) return false.
C5_VerdictIsReadability ==
    (pos = "test" /\ ca.pos = "ret" /\ CAN_ACCESS_PIPE.fds[1] # -1)
    => /\ ca.ret = (ca.address \in readable)
       /\ (ca.address \in {0, AddrSpace - 1} => ~ca.ret)

C5_Witness ==
    /\ pos = "test"
    /\ ca.pos = "ret"
    /\ CAN_ACCESS_PIPE.fds[1] # -1
    /\ ncalls = 2
    /\ ca.address = AddrSpace - 1
    /\ ~ca.ret
    /\ \E i \in DOMAIN log : log[i].op = "verdict" /\ log[i].res = 1
    /\ \E i \in DOMAIN log : log[i].op = "verdict" /\ log[i].arg = 0 /\ log[i].res = 0

\* C6: no call aborts on its arithmetic: fp + 8 and (return address) - 1
\* stay within the unsigned range.
C6_NoArithmeticAbort == outcome # "overflow"

\* When a walk has ended on a frame pointer of 0 it has made two loads per
\* frame record of the chain and one callback invocation per frame plus the
\* first, and its last event is the one that produced the 0.
C7_ExhaustedState ==
    outcome = "exhausted"
    => LET n == ChainLen(Start.fp, MaxFrames + 1)
       IN /\ CountOp(log, "load") = 2 * n
          /\ CountOp(log, "f") = n + 1
          /\ (ProbeEnabled => CountOp(log, "can_access") = 2 * n)
          /\ log[Len(log)].op = IF n = 0 THEN "f" ELSE "load"
          /\ (n > 0 => log[Len(log)].res = 0)

\* With a frame pointer of 0 at the head of the loop the call returns at once:
\* no load, probe call, system call or callback invocation.
C7_ReturnsAtOnce ==
    (pos = "while" /\ fp = 0)
    => /\ pos' = "done"
       /\ outcome' = "exhausted"
       /\ UNCHANGED <<log, mem, pipe_len, CAN_ACCESS_PIPE, ca>>

\* C7: both parts: the state in which a walk ends on a frame pointer of 0, and
\* the step that ends it.
C7_ZeroTerminates == [](C7_ExhaustedState) /\ [][C7_ReturnsAtOnce]_vars

C7_Witness ==
    /\ outcome = "exhausted"
    /\ ProbeEnabled
    /\ ChainLen(Start.fp, MaxFrames + 1) = 2

\* C8 (as stated): at the head of the loop, with no interrupted call, the
\* reads and writes issued number two per completed iteration with the probe
\* enabled, none with it disabled.
C8_TwoSyscallsPerFrame ==
    (pos = "while" /\ intr = 0)
    => Syscalls = (IF ProbeEnabled THEN 2 ELSE 0) * (CountOp(log, "f") - 1)

\* C8 (amended): at the head of the loop, with no interrupted call, the reads
\* and writes issued number four per completed iteration with the probe
\* enabled (a read and a write for each of the two probed loads); with the
\* probe disabled the call makes no read, write or pipe2 at all.
C8_FourSyscallsPerFrame ==
    /\ (pos = "while" /\ intr = 0)
       => Syscalls = (IF ProbeEnabled THEN 4 ELSE 0) * (CountOp(log, "f") - 1)
    /\ (Walking /\ ~ProbeEnabled) => (Syscalls = 0 /\ CountOp(log, "pipe2") = 0)

C8_Witness ==
    /\ pos = "while"
    /\ intr = 0
    /\ ProbeEnabled
    /\ CountOp(log, "f") = 3

\* C9: in a walk, a false verdict of can_access is followed by nothing but
\* load's None and the return of the call; the addresses passed to the
\* callback until then are the first ones of the chain's sequence.
C9_RejectionEndsWalk ==
    Walking
    => /\ \A i \in DOMAIN log :
            (log[i].op = "verdict" /\ log[i].res = 0)
            => \/ i = Len(log) /\ pos \in {"load_ra", "load_fp"}
               \/ /\ i + 1 = Len(log)
                  /\ log[i + 1].op = "none"
                  /\ pos = "done"
                  /\ outcome = "unreadable"
       /\ outcome = "unreadable"
          => Emitted = <<Start.pc>> \o Expected(Start.fp, CountOp(log, "f") - 1)

C9_Witness ==
    /\ outcome = "unreadable"
    /\ CountOp(log, "f") = 3
    /\ log[Len(log) - 1].op = "verdict"
    /\ log[Len(log) - 1].arg = fp

\* C10: from_ucontext gives None exactly for a null context (on Darwin, also
\* a null register block), and otherwise the program-counter and
\* frame-pointer registers of the context.
C10_ExtractsRegisters ==
    (Walking /\ ViaUcontext)
    => /\ Start.some = ~(ucontext.null \/ (IsDarwin(arch_os) /\ ucontext.mnull))
       /\ (pos = "f0" => (pc = ucontext.regs.pc_reg /\ fp = ucontext.regs.fp_reg))

\* Every byte of a value of w bytes at a is readable.
AllReadable(a, w) == \A b \in 0..(w - 1) : (a + b) \in readable

\* C11: every load of the test driver (the event after a width event) gives
\* Some(the value stored at the address) when the bytes of the value are
\* readable and the probe, if compiled in, did not reject the address; the
\* values of all loads of one address agree with the one memory (load changes
\* nothing); with the probe compiled in the call gives None exactly when the
\* verdict of can_access for the address was false, and then reads nothing.
C11_LoadReturnsStored ==
    \A i \in DOMAIN log :
        log[i].op = "width"
        => LET a == log[i].arg
               w == log[i].res
               e == log[i + 1]
               rejected == ProbeEnabled /\ log[i - 1].res = 0
           IN /\ ProbeEnabled => (log[i - 1].op = "verdict" /\ log[i - 1].arg = a)
              /\ (e.op = "none") = rejected
              /\ (AllReadable(a, w) /\ ~rejected)
                 => (e.op = "load" /\ e.res = Narrow(mem[a], w))

Sentinel == CAN_ACCESS_PIPE.init /\ CAN_ACCESS_PIPE.fds = <<-1, -1>>
CreationFailed == \E i \in DOMAIN log : log[i].op = "pipe2" /\ log[i].res # 0

\* C13: pipe2 is called at most once on a thread, inside the thread's first
\* can_access call; when it failed the sentinel stays cached, every can_access
\* call returns false at once (its verdict follows the call with no read or
\* write, and no second pipe2), and a walk on the thread that starts from a
\* non-zero frame pointer invokes the callback with the initial pc only.
C13_CreatedOnceSentinelCached ==
    /\ CAN_ACCESS_PIPE.init = (\E i \in DOMAIN log : log[i].op = "pipe2")
    /\ \A i \in DOMAIN log :
         log[i].op = "pipe2"
         => /\ i > 1
            /\ log[i - 1].op = "can_access"
            /\ \A j \in 1..(i - 2) : log[j].op # "can_access"
            /\ \A j \in DOMAIN log : log[j].op = "pipe2" => j = i
    /\ CreationFailed
       => /\ CAN_ACCESS_PIPE.init => Sentinel
          /\ \A i \in DOMAIN log :
               /\ log[i].op \notin {"read", "write"}
               /\ log[i].op = "verdict" => log[i].res = 0
               /\ (log[i].op = "can_access" /\ i < Len(log))
                  => \/ log[i + 1].op = "verdict"
                     \/ /\ log[i + 1].op = "pipe2"
                        /\ i + 1 < Len(log) => log[i + 2].op = "verdict"
          /\ (Walking /\ Start.some /\ Start.fp # 0)
             => /\ \A i \in DOMAIN log : log[i].op # "load"
                /\ pos = "done" => Emitted = <<Start.pc>>
                /\ Len(Emitted) <= 1

\* A thread whose pipe creation failed in an earlier can_access call has made
\* a further call and then a walk from a non-zero frame pointer, which the
\* probe ended after the initial pc.
C13_Witness ==
    /\ CreationFailed
    /\ ncalls >= 1
    /\ CountOp(log, "can_access") >= 2
    /\ pos = "done"
    /\ outcome = "unreadable"
    /\ Start.some
    /\ Start.fp # 0
    /\ Emitted = <<Start.pc>>

\* A read of memory by the walk: a completed load or a fault.
IsRead(e) == e.op \in {"load", "fault"}
\* The event before log[i] is the true verdict of can_access for log[i].arg.
CheckedBefore(i) ==
    /\ i > 1
    /\ log[i - 1].op = "verdict"
    /\ log[i - 1].arg = log[i].arg
    /\ log[i - 1].res = 1
\* The call has left the probe alone and load has never given None.
Unchecked ==
    \A i \in DOMAIN log :
        log[i].op \notin {"can_access", "pipe2", "read", "write", "verdict", "none"}

\* C17 (as stated): with the build option on, on every one of the four
\* targets, every read of the walk comes right after a true verdict of
\* can_access for its address; with the option off the walk never calls the
\* probe and load never gives None.
C17_CheckedOnEveryTarget ==
    Walking
    => /\ feature => \A i \in DOMAIN log : IsRead(log[i]) => CheckedBefore(i)
       /\ ~feature => Unchecked

\* C17 (amended): the same with "the option on and the target Linux" in place
\* of "the option on": on the two Darwin targets the option changes nothing.
C17_CheckedOnLinuxOnly ==
    Walking
    => /\ (IsLinux /\ feature)
          => \A i \in DOMAIN log : IsRead(log[i]) => CheckedBefore(i)
       /\ ~(IsLinux /\ feature) => Unchecked

\* On a Darwin target with the option on, the walk has read two words that no
\* check preceded.
C17_Witness ==
    /\ ~IsLinux /\ feature
    /\ CountOp(log, "load") = 2
    /\ IsRead(log[Len(log)])
    /\ Unchecked

\* C18: on a thread whose can_access calls run one after the other, the pipe
\* holds at most one byte whenever no call is between its drain and its
\* return, and no byte at all when a call is about to write; no write has
\* answered "would block", and every true verdict is for a readable address.
C18_PipeAtMostOneByte ==
    /\ ca.pos \in {"idle", "enter", "drain", "ret"} => pipe_len <= ProbeLen
    /\ ca.pos = "write" => pipe_len = 0
    /\ \A i \in DOMAIN log :
         /\ log[i].op = "write" => log[i].res # -EAGAIN
         /\ (log[i].op = "verdict" /\ log[i].res = 1) => log[i].arg \in readable

\* The third call of a thread is about to write after draining the byte the
\* second call left; the first call left one too.
C18_Witness ==
    /\ ca.pos = "write"
    /\ pipe_len = 0
    /\ ncalls = 2
    /\ CountOp(log, "write") = 2
    /\ log[Len(log)].op = "read"
    /\ log[Len(log)].res = ProbeLen
    /\ \A i \in DOMAIN log : log[i].op = "write" => log[i].res = ProbeLen

\* C14: an interrupted read or write is followed by the same call with the
\* same arguments; a failure other than "interrupted" and "would block" is
\* followed by the verdict false; every result other than "interrupted",
\* whatever it is, ends its loop (so a call issues finitely many system calls
\* when finitely many are interrupted): a read is then not followed by a
\* read, and a write is followed by the verdict.
C14_EveryResultDecides ==
    \A i \in DOMAIN log :
        log[i].op \in {"read", "write"}
        => /\ (log[i].res = -EINTR /\ i < Len(log))
              => (log[i + 1].op = log[i].op /\ log[i + 1].arg = log[i].arg)
           /\ (log[i].res < 0 /\ log[i].res \notin {-EINTR, -EAGAIN})
              => (i < Len(log) /\ log[i + 1].op = "verdict" /\ log[i + 1].res = 0)
           /\ (log[i].res # -EINTR /\ log[i].op = "read")
              => IF i < Len(log) THEN log[i + 1].op # "read" ELSE ca.pos # "drain"
           /\ (log[i].res # -EINTR /\ log[i].op = "write")
              => (i < Len(log) /\ log[i + 1].op = "verdict")

\* The chain from the starting frame pointer is a readable frame record whose
\* saved frame pointer is its own address, and the probe (if any) has a pipe.
SelfReferential ==
    /\ Start.some
    /\ Start.fp # 0
    /\ FrameReadable(Start.fp)
    /\ Start.fp \in DOMAIN mem
    /\ mem[Start.fp] = Start.fp
    /\ PipeCreated

\* C15: a walk whose callback always returns true and whose reads do not
\* fault ends only with a frame pointer of 0 or with a rejection by the
\* probe; on a readable self-referential chain it never ends.
C15_EndsOnlyAtZeroOrRejection ==
    (pos = "done" /\ Walking /\ Start.some /\ ~GetcontextFailed /\ AllTrue
        /\ outcome # "fault")
    => /\ \/ outcome = "exhausted" /\ fp = 0
          \/ /\ outcome = "unreadable"
             /\ ProbeEnabled
             /\ log[Len(log) - 1].op = "verdict"
             /\ log[Len(log) - 1].res = 0
       /\ ~SelfReferential

\* What thread t has: its thread-local, its call, the bytes in its pipe.
PipeOf(t) == IF t = cur THEN CAN_ACCESS_PIPE ELSE tls[thread_local(t)]
CallOf(t) == IF t = cur THEN ca ELSE threads[t]
BufferOf(t) == IF t = cur THEN pipe_len ELSE kpipes[PipeOf(t).fds[1]]

\* C16: threads that have created their pipes hold different descriptors,
\* and every thread, however the calls of the others are interleaved with
\* its own, sees what it would see alone: at most one byte in its pipe
\* outside the stretch from drain to return, an empty pipe when it is about to
\* write, and a verdict that is the readability of its address.
C16_ThreadsDoNotInterfere ==
    /\ \A t, u \in Threads :
         (t # u /\ Created(PipeOf(t)) /\ Created(PipeOf(u)))
         => {PipeOf(t).fds[1], PipeOf(t).fds[2]} \cap {PipeOf(u).fds[1], PipeOf(u).fds[2]} = {}
    /\ \A t \in Threads :
         Created(PipeOf(t))
         => /\ CallOf(t).pos \in {"idle", "enter", "drain"} => BufferOf(t) <= ProbeLen
            /\ CallOf(t).pos = "write" => BufferOf(t) = 0
            /\ CallOf(t).pos = "ret"
               => /\ CallOf(t).ret = (CallOf(t).address \in readable)
                  /\ BufferOf(t) = B2N(CallOf(t).ret)

\* Both threads have a pipe and are inside a call at the same time: one is
\* about to write while the other has been taken off the processor between
\* its drain and its write.
C16_Witness ==
    /\ \A t \in Threads : Created(PipeOf(t)) /\ CallOf(t).pos = "write"
    /\ PipeOf(1).fds # PipeOf(2).fds
    /\ CallOf(1).address \in readable
    /\ CallOf(2).address \notin readable

\* C12: on a thread whose pipe was created, every can_access call that has
\* its verdict, the running one and those a signal has suspended, whether
\* it was interrupted by a handler that made can_access calls or made inside
\* such a handler, has the readability of its address as verdict. (No call
\* blocks: the descriptors are non-blocking and every system call returns.)
C12_ReentrantVerdicts ==
    Created(CAN_ACCESS_PIPE)
    => /\ ca.pos = "ret" => ca.ret = (ca.address \in readable)
       /\ \A i \in DOMAIN stack :
            stack[i].ca.pos = "ret"
            => stack[i].ca.ret = (stack[i].ca.address \in readable)

====
